---- MODULE Spec2Model ----
(***************************************************************************)
(* Stream Pager (src/src/lib.rs): the Pager session, its registration API, *)
(* run, wait_for_screenful and files_fit.                                  *)
(*                                                                         *)
(* File indices are 0-based as in the code; a file with index i sits at    *)
(* position i + 1 of the TLA+ sequences.  A line is represented by its     *)
(* length in columns.  Time is a discrete clock in milliseconds that       *)
(* advances only while the orchestrating thread is blocked in              *)
(* EventStream::get.                                                       *)
(***************************************************************************)
EXTENDS Integers, Sequences, FiniteSets

VARIABLES
    files,            \* Pager.files: the index stored in each File, in list order
    kinds,            \* history: "out"/"err", the call that registered each file
    error_files,      \* Pager.error_files: set of <<key, index of the error File>>
    progress,         \* Pager.progress is Some
    delay_fullscreen, \* Pager.delay_fullscreen
    ret,              \* Result of the most recent API call ("none" while run is executing)
    published,        \* per file: the lines visible to readers (their lengths)
    srcState,         \* per file: "Loading" or "Loaded"
    chan,             \* Loaded(i) events sent and not yet received
    termSize,         \* the terminal's actual dimensions
    pendingResized,   \* Resized input events not yet received
    pc,               \* lifecycle position of run
    size,             \* wait_for_screenful: local `size`
    loaded,           \* wait_for_screenful: local `loaded`
    clock,            \* load_start.elapsed() in ms, until run leaves the wait's result
    event,            \* what the most recent events.get returned: "Key", "Resized",
                      \* "Other" (Loaded, ProgressUpdated, other input, None) or "Err"
    fit,              \* result of wait_for_screenful
    cause,            \* why wait_for_screenful returned
    rendered,         \* the changes handed to term.render: <<file, line, length>>
    renders,          \* number of term.render calls issued
    handed,           \* what display::start received (empty until it is called)
    onTime,           \* history: no source reached Loaded after the deadline
    frame             \* the reader's position inside files_fit or the flush loop,
                      \* when that call is followed statement by statement

vars == <<files, kinds, error_files, progress, delay_fullscreen, ret, published,
          srcState, chan, termSize, pendingResized, pc, size, loaded, clock,
          event, fit, cause, rendered, renders, handed, onTime, frame>>

regVars == <<files, kinds, error_files, published, srcState>>
waitVars == <<size, loaded, clock, event, fit, cause>>
decidedVars == <<event, fit, cause>>
outVars == <<rendered, renders, handed>>

(* ----------------------------- bounds --------------------------------- *)
MaxFiles == 3
MaxRunFiles == 2
MaxLines == 2
MaxResizes == 1
MaxReadFiles == 2
MaxReadLines == 2
MaxRows == 3

(* ------------------------- program constants -------------------------- *)
LoadDelay == 2000
SubTimeout == 50

(* ----------------------------- inputs --------------------------------- *)
LineLens == {3}
ScreenSizes == {[cols |-> 4, rows |-> 2], [cols |-> 2, rows |-> 1]}
NoSize == [cols |-> 0, rows |-> 0]
NoFrame == [fn |-> "none", at |-> "idle", file |-> 0, lines |-> 0, i |-> 0,
            wrapped_lines |-> 0, changes |-> <<>>, ret |-> "none",
            reads |-> 0, nones |-> 0, grew |-> FALSE, seen |-> <<>>]
PollDurations == {SubTimeout \div 2, SubTimeout}
ReadLineLens == {1, 3}
ReadSizes == [cols : {2, 4}, rows : 0..MaxRows]

(* --------------------------- pure helpers ----------------------------- *)
Height(len, w) == IF len = 0 THEN 1 ELSE (len + w - 1) \div w

Lines(pub, f) == Len(pub[f + 1])

WithLine(pub, f, i) == IF i < Lines(pub, f) THEN <<pub[f + 1][i + 1]>> ELSE <<>>

\* mutant: every line counted as one row, whatever its wrapped height
LineHeightOr0_One(pub, f, i, w) == IF WithLine(pub, f, i) = <<>> THEN 0 ELSE 1

LineHeightOr0(pub, f, i, w) ==
    LET l == WithLine(pub, f, i) IN IF l = <<>> THEN 0 ELSE Height(l[1], w)

RECURSIVE LineLoop(_, _, _, _, _, _, _)
LineLoop(pub, f, i, lines, wrapped, w, h) ==
    IF i >= lines THEN <<TRUE, wrapped>>
    ELSE LET wrapped2 == wrapped + LineHeightOr0(pub, f, i, w) IN
         IF wrapped2 > h THEN <<FALSE, wrapped2>>
         ELSE LineLoop(pub, f, i + 1, lines, wrapped2, w, h)

RECURSIVE FileLoop(_, _, _, _, _, _)
FileLoop(pub, fs, k, wrapped, w, h) ==
    IF k > Len(fs) THEN TRUE
    ELSE LET lines == Lines(pub, fs[k]) IN
         IF wrapped + lines > h THEN FALSE
         ELSE LET r == LineLoop(pub, fs[k], 0, lines, wrapped, w, h) IN
              IF r[1] THEN FileLoop(pub, fs, k + 1, r[2], w, h) ELSE FALSE

\* mutant: the two comparisons of files_fit written >= instead of >
files_fit_Strict(pub, fs, w, h) == FileLoop(pub, fs, 1, 0, w, h - 1)

files_fit(pub, fs, w, h) == FileLoop(pub, fs, 1, 0, w, h)

\* mutant: the map is rebuilt with the new entry alone
VecMapInsert_Replace(m, k, v) == {<<k, v>>}

VecMapInsert(m, k, v) == {p \in m : p[1] # k} \cup {<<k, v>>}

RECURSIVE TotalLines(_, _)
TotalLines(pub, k) == IF k = 0 THEN 0 ELSE Len(pub[k]) + TotalLines(pub, k - 1)

\* mutant: the loop over a file's lines stops one short
FileChanges_DropLast(pub, f) == [i \in 1..(Lines(pub, f) - 1) |-> <<f, i - 1, pub[f + 1][i]>>]

FileChanges(pub, f) == [i \in 1..Lines(pub, f) |-> <<f, i - 1, pub[f + 1][i]>>]

Session == [files |-> files, error_files |-> error_files, progress |-> progress]

(* ------------------------------- Init --------------------------------- *)
Init ==
    /\ files = <<>>
    /\ kinds = <<>>
    /\ error_files = {}
    /\ progress = FALSE
    /\ delay_fullscreen = TRUE
    /\ ret = "none"
    /\ published = <<>>
    /\ srcState = <<>>
    /\ chan = <<>>
    /\ termSize \in ScreenSizes
    /\ pendingResized = 0
    /\ pc = "Configuring"
    /\ size = NoSize
    /\ loaded = <<>>
    /\ clock = 0
    /\ event = "none"
    /\ fit = "none"
    /\ cause = "none"
    /\ rendered = <<>>
    /\ renders = 0
    /\ handed = <<>>
    /\ onTime = TRUE
    /\ frame = NoFrame

(* --------------------------- registration ----------------------------- *)
\* mutant: the index taken after the push, one past the file's position
AddOutputStream_IndexAfterPush ==
    /\ pc = "Configuring"
    /\ Len(files) < MaxFiles
    /\ LET index == Len(files) + 1 IN
         /\ files' = Append(files, index)
         /\ kinds' = Append(kinds, "out")
         /\ published' = Append(published, <<>>)
         /\ srcState' = Append(srcState, "Loading")
    /\ ret' = "ok"
    /\ UNCHANGED <<onTime, error_files, progress, delay_fullscreen, chan, termSize,
                   pendingResized, pc>>
    /\ UNCHANGED waitVars
    /\ UNCHANGED outVars
    /\ UNCHANGED frame

AddOutputStream ==
    /\ pc = "Configuring"
    /\ Len(files) < MaxFiles
    /\ LET index == Len(files) IN
         /\ files' = Append(files, index)
         /\ kinds' = Append(kinds, "out")
         /\ published' = Append(published, <<>>)
         /\ srcState' = Append(srcState, "Loading")
    /\ ret' = "ok"
    /\ UNCHANGED <<onTime, error_files, progress, delay_fullscreen, chan, termSize,
                   pendingResized, pc>>
    /\ UNCHANGED waitVars
    /\ UNCHANGED outVars
    /\ UNCHANGED frame

\* mutant: the entry keyed by the error file's own index
AddErrorStream_KeyIsOwnIndex ==
    /\ pc = "Configuring"
    /\ Len(files) < MaxFiles
    /\ LET index == Len(files) IN
         /\ error_files' = IF files # <<>>
                           THEN VecMapInsert(error_files, index, index)
                           ELSE error_files
         /\ files' = Append(files, index)
         /\ kinds' = Append(kinds, "err")
         /\ published' = Append(published, <<>>)
         /\ srcState' = Append(srcState, "Loading")
    /\ ret' = "ok"
    /\ UNCHANGED <<onTime, progress, delay_fullscreen, chan, termSize, pendingResized, pc>>
    /\ UNCHANGED waitVars
    /\ UNCHANGED outVars
    /\ UNCHANGED frame

AddErrorStream ==
    /\ pc = "Configuring"
    /\ Len(files) < MaxFiles
    /\ LET index == Len(files) IN
         /\ error_files' = IF files # <<>>
                           THEN VecMapInsert(error_files, files[Len(files)], index)
                           ELSE error_files
         /\ files' = Append(files, index)
         /\ kinds' = Append(kinds, "err")
         /\ published' = Append(published, <<>>)
         /\ srcState' = Append(srcState, "Loading")
    /\ ret' = "ok"
    /\ UNCHANGED <<onTime, progress, delay_fullscreen, chan, termSize, pendingResized, pc>>
    /\ UNCHANGED waitVars
    /\ UNCHANGED outVars
    /\ UNCHANGED frame

AddStreamErr ==
    /\ pc = "Configuring"
    /\ ret' = "err"
    /\ UNCHANGED <<onTime, progress, delay_fullscreen, chan, termSize, pendingResized, pc>>
    /\ UNCHANGED regVars
    /\ UNCHANGED waitVars
    /\ UNCHANGED outVars
    /\ UNCHANGED frame

SetProgressStream ==
    /\ pc = "Configuring"
    /\ progress' = TRUE
    /\ ret' = "ok"
    /\ UNCHANGED <<onTime, delay_fullscreen, chan, termSize, pendingResized, pc>>
    /\ UNCHANGED regVars
    /\ UNCHANGED waitVars
    /\ UNCHANGED outVars
    /\ UNCHANGED frame

SetDelayFullscreen ==
    /\ pc = "Configuring"
    /\ \E value \in BOOLEAN : delay_fullscreen' = value
    /\ ret' = "ok"
    /\ UNCHANGED <<onTime, progress, chan, termSize, pendingResized, pc>>
    /\ UNCHANGED regVars
    /\ UNCHANGED waitVars
    /\ UNCHANGED outVars
    /\ UNCHANGED frame

(* ------------------------- source worker threads ---------------------- *)
WorkerPhases == {"Configuring", "DecidingFit", "Interactive"}

BeforeDeadline == pc = "Configuring" \/ (pc = "DecidingFit" /\ clock < LoadDelay)

WorkerAppend ==
    /\ pc \in WorkerPhases
    /\ \E f \in 1..Len(files) :
         /\ srcState[f] = "Loading"
         /\ TotalLines(published, Len(published)) < MaxLines
         /\ \E len \in LineLens :
              published' = [published EXCEPT ![f] = Append(@, len)]
    /\ UNCHANGED <<onTime, files, kinds, error_files, progress, delay_fullscreen, ret,
                   srcState, chan, termSize, pendingResized, pc>>
    /\ UNCHANGED waitVars
    /\ UNCHANGED outVars
    /\ UNCHANGED frame

WorkerFinish ==
    /\ pc \in WorkerPhases
    /\ \E f \in 1..Len(files) :
         /\ srcState[f] = "Loading"
         /\ srcState' = [srcState EXCEPT ![f] = "Loaded"]
         /\ chan' = Append(chan, files[f])
    /\ onTime' = (onTime /\ BeforeDeadline)
    /\ UNCHANGED <<files, kinds, error_files, progress, delay_fullscreen, ret,
                   published, termSize, pendingResized, pc>>
    /\ UNCHANGED waitVars
    /\ UNCHANGED outVars
    /\ UNCHANGED frame

(* ------------------------------ terminal ------------------------------ *)
ResizeTerminal ==
    /\ pc = "DecidingFit"
    /\ pendingResized < MaxResizes
    /\ \E s \in ScreenSizes \ {termSize} : termSize' = s
    /\ pendingResized' = pendingResized + 1
    /\ UNCHANGED <<onTime, progress, delay_fullscreen, ret, chan, pc>>
    /\ UNCHANGED regVars
    /\ UNCHANGED waitVars
    /\ UNCHANGED outVars
    /\ UNCHANGED frame

(* --------------------------------- run -------------------------------- *)
RunImmediate ==
    /\ pc = "Configuring"
    /\ Len(files) <= MaxRunFiles
    /\ ~delay_fullscreen
    /\ pc' = "Interactive"
    /\ handed' = <<Session>>
    /\ ret' = "none"
    /\ UNCHANGED <<onTime, progress, delay_fullscreen, chan, termSize, pendingResized,
                   rendered, renders>>
    /\ UNCHANGED regVars
    /\ UNCHANGED waitVars
    /\ UNCHANGED frame

RunDelayed ==
    /\ pc = "Configuring"
    /\ Len(files) <= MaxRunFiles
    /\ delay_fullscreen
    /\ pc' = "DecidingFit"
    /\ size' = termSize
    /\ loaded' = [j \in 1..Len(files) |-> FALSE]
    /\ clock' = 0
    /\ ret' = "none"
    /\ UNCHANGED <<onTime, progress, delay_fullscreen, chan, termSize, pendingResized,
                   event, fit, cause>>
    /\ UNCHANGED regVars
    /\ UNCHANGED outVars
    /\ UNCHANGED frame

RunSizeErr ==
    /\ pc = "Configuring"
    /\ Len(files) <= MaxRunFiles
    /\ delay_fullscreen
    /\ pc' = "Terminated"
    /\ fit' = "err"
    /\ cause' = "error"
    /\ ret' = "err"
    /\ UNCHANGED <<onTime, progress, delay_fullscreen, chan, termSize, pendingResized,
                   size, loaded, clock, event>>
    /\ UNCHANGED regVars
    /\ UNCHANGED outVars
    /\ UNCHANGED frame

(* ------------------------- wait_for_screenful ------------------------- *)
LoopGuard == pc = "DecidingFit" /\ clock < LoadDelay

\* events.get blocks for d ms and returns an event of class e
Get(e) ==
    /\ \E d \in PollDurations : clock' = clock + d
    /\ event' = e


\* mutant: the sub-timeout built with from_secs instead of from_millis
GetNone_Secs ==
    /\ clock' = clock + 1000 * SubTimeout
    /\ event' = "Other"

\* events.get finds nothing within the sub-timeout and returns None
GetNone ==
    /\ clock' = clock + SubTimeout
    /\ event' = "Other"

\* wait_for_screenful returns Ok(value), its locals being sz and ld
Return(value, why, sz, ld) ==
    /\ pc' = "Decided"
    /\ fit' = value
    /\ cause' = why
    /\ size' = sz
    /\ loaded' = ld

\* the loop goes round again with the locals sz and ld
Continue(sz, ld) ==
    /\ size' = sz
    /\ loaded' = ld
    /\ UNCHANGED <<pc, fit, cause>>

\* mutant: the loop body ends without the overflow check
BodyEnd_NoCheck(sz, ld) == Continue(sz, ld)

\* the check that ends the loop body
BodyEnd(sz, ld) ==
    IF ~files_fit(published, files, sz.cols, sz.rows)
    THEN Return("nofit", "overflow", sz, ld)
    ELSE Continue(sz, ld)

\* mutant: run takes the Err of wait_for_screenful for Ok(false)
WaitErr_Swallowed ==
    /\ pc' = "Decided"
    /\ fit' = "nofit"
    /\ cause' = "error"
    /\ ret' = ret
    /\ UNCHANGED <<size, loaded, clock>>

\* wait_for_screenful returns Err, which run propagates with `?`
WaitErr ==
    /\ pc' = "Terminated"
    /\ fit' = "err"
    /\ cause' = "error"
    /\ ret' = "err"
    /\ size' = NoSize
    /\ loaded' = <<>>
    /\ clock' = 0

\* mutant: any instead of all
AllLoaded_Any(ld) == \E j \in 1..Len(ld) : ld[j]

AllLoaded(ld) == \A j \in 1..Len(ld) : ld[j]

\* mutant: once every source is loaded the wait reports "fits" unconditionally
PollLoaded_NoFitCheck ==
    /\ LoopGuard
    /\ chan # <<>>
    /\ Get("Other")
    /\ chan' = Tail(chan)
    /\ LET i == Head(chan)
           ld == [loaded EXCEPT ![i + 1] = TRUE]
       IN IF AllLoaded(ld)
          THEN Return("fits", "loaded", size, ld)
          ELSE BodyEnd(size, ld)
    /\ UNCHANGED <<onTime, progress, delay_fullscreen, ret, termSize, pendingResized>>
    /\ UNCHANGED regVars
    /\ UNCHANGED outVars
    /\ UNCHANGED frame

PollLoaded ==
    /\ LoopGuard
    /\ chan # <<>>
    /\ Get("Other")
    /\ chan' = Tail(chan)
    /\ LET i == Head(chan)
           ld == [loaded EXCEPT ![i + 1] = TRUE]
       IN IF AllLoaded(ld)
          THEN IF files_fit(published, files, size.cols, size.rows)
               THEN Return("fits", "loaded", size, ld)
               ELSE Return("nofit", "loaded", size, ld)
          ELSE BodyEnd(size, ld)
    /\ UNCHANGED <<onTime, progress, delay_fullscreen, ret, termSize, pendingResized>>
    /\ UNCHANGED regVars
    /\ UNCHANGED outVars
    /\ UNCHANGED frame

\* mutant: the Resized arm keeps the dimensions fetched before the loop
PollResized_StaleSize ==
    /\ LoopGuard
    /\ pendingResized > 0
    /\ Get("Resized")
    /\ pendingResized' = pendingResized - 1
    /\ BodyEnd(size, loaded)
    /\ UNCHANGED <<onTime, progress, delay_fullscreen, ret, chan, termSize>>
    /\ UNCHANGED regVars
    /\ UNCHANGED outVars
    /\ UNCHANGED frame

PollResized ==
    /\ LoopGuard
    /\ pendingResized > 0
    /\ Get("Resized")
    /\ pendingResized' = pendingResized - 1
    /\ BodyEnd(termSize, loaded)
    /\ UNCHANGED <<onTime, progress, delay_fullscreen, ret, chan, termSize>>
    /\ UNCHANGED regVars
    /\ UNCHANGED outVars
    /\ UNCHANGED frame

PollResizedErr ==
    /\ LoopGuard
    /\ pendingResized > 0
    /\ event' = "Resized"
    /\ pendingResized' = pendingResized - 1
    /\ WaitErr
    /\ UNCHANGED <<onTime, progress, delay_fullscreen, chan, termSize>>
    /\ UNCHANGED regVars
    /\ UNCHANGED outVars
    /\ UNCHANGED frame

\* mutant: a key press is handled like any other input event
PollKey_Ignored ==
    /\ LoopGuard
    /\ Get("Key")
    /\ BodyEnd(size, loaded)
    /\ UNCHANGED <<onTime, progress, delay_fullscreen, ret, chan, termSize, pendingResized>>
    /\ UNCHANGED regVars
    /\ UNCHANGED outVars
    /\ UNCHANGED frame

PollKey ==
    /\ LoopGuard
    /\ Get("Key")
    /\ Return("nofit", "key", size, loaded)
    /\ UNCHANGED <<onTime, progress, delay_fullscreen, ret, chan, termSize, pendingResized>>
    /\ UNCHANGED regVars
    /\ UNCHANGED outVars
    /\ UNCHANGED frame

PollProgress ==
    /\ LoopGuard
    /\ progress
    /\ Get("Other")
    /\ BodyEnd(size, loaded)
    /\ UNCHANGED <<onTime, progress, delay_fullscreen, ret, chan, termSize, pendingResized>>
    /\ UNCHANGED regVars
    /\ UNCHANGED outVars
    /\ UNCHANGED frame

PollInput ==
    /\ LoopGuard
    /\ Get("Other")
    /\ BodyEnd(size, loaded)
    /\ UNCHANGED <<onTime, progress, delay_fullscreen, ret, chan, termSize, pendingResized>>
    /\ UNCHANGED regVars
    /\ UNCHANGED outVars
    /\ UNCHANGED frame

\* mutant: a poll that times out ends the wait
PollTimeout_Breaks ==
    /\ LoopGuard
    /\ chan = <<>>
    /\ pendingResized = 0
    /\ GetNone
    /\ Return("nofit", "deadline", size, loaded)
    /\ UNCHANGED <<onTime, progress, delay_fullscreen, ret, chan, termSize, pendingResized>>
    /\ UNCHANGED regVars
    /\ UNCHANGED outVars
    /\ UNCHANGED frame

PollTimeout ==
    /\ LoopGuard
    /\ chan = <<>>
    /\ pendingResized = 0
    /\ GetNone
    /\ BodyEnd(size, loaded)
    /\ UNCHANGED <<onTime, progress, delay_fullscreen, ret, chan, termSize, pendingResized>>
    /\ UNCHANGED regVars
    /\ UNCHANGED outVars
    /\ UNCHANGED frame

PollErr ==
    /\ LoopGuard
    /\ event' = "Err"
    /\ WaitErr
    /\ UNCHANGED <<onTime, progress, delay_fullscreen, chan, termSize, pendingResized>>
    /\ UNCHANGED regVars
    /\ UNCHANGED outVars
    /\ UNCHANGED frame

DeadlineElapsed ==
    /\ pc = "DecidingFit"
    /\ ~(clock < LoadDelay)
    /\ Return("nofit", "deadline", size, loaded)
    /\ UNCHANGED <<onTime, progress, delay_fullscreen, ret, chan, termSize, pendingResized,
                   clock, event>>
    /\ UNCHANGED regVars
    /\ UNCHANGED outVars
    /\ UNCHANGED frame

(* ------------------------ run, after the wait -------------------------- *)
\* the locals of wait_for_screenful are gone once run acts on its result
DropLocals ==
    /\ size' = NoSize
    /\ loaded' = <<>>
    /\ clock' = 0

\* mutant: no return after the render, so run goes on to display::start
DirectFlush_FallsThrough ==
    /\ pc = "Decided"
    /\ fit = "fits"
    /\ IF files = <<>>
       THEN UNCHANGED <<rendered, renders>>
       ELSE /\ rendered' = FileChanges(published, files[1])
            /\ renders' = renders + 1
    /\ pc' = "Interactive"
    /\ handed' = <<Session>>
    /\ UNCHANGED <<onTime, progress, delay_fullscreen, ret, chan, termSize, pendingResized>>
    /\ UNCHANGED regVars
    /\ UNCHANGED decidedVars
    /\ DropLocals
    /\ UNCHANGED frame

DirectFlush ==
    /\ pc = "Decided"
    /\ fit = "fits"
    /\ IF files = <<>>
       THEN /\ pc' = "Interactive"
            /\ handed' = <<Session>>
            /\ UNCHANGED <<rendered, renders, ret>>
       ELSE /\ rendered' = FileChanges(published, files[1])
            /\ renders' = renders + 1
            /\ ret' = "ok"
            /\ pc' = "Terminated"
            /\ UNCHANGED handed
    /\ UNCHANGED <<onTime, progress, delay_fullscreen, chan, termSize, pendingResized>>
    /\ UNCHANGED regVars
    /\ UNCHANGED decidedVars
    /\ DropLocals
    /\ UNCHANGED frame

DirectFlushErr ==
    /\ pc = "Decided"
    /\ fit = "fits"
    /\ files # <<>>
    /\ \E failing \in {"render_full", "render"} :
         IF failing = "render_full"
         THEN /\ Lines(published, files[1]) > 0
              /\ UNCHANGED <<rendered, renders>>
         ELSE /\ rendered' = FileChanges(published, files[1])
              /\ renders' = renders + 1
    /\ ret' = "err"
    /\ pc' = "Terminated"
    /\ UNCHANGED <<onTime, progress, delay_fullscreen, chan, termSize, pendingResized, handed>>
    /\ UNCHANGED regVars
    /\ UNCHANGED decidedVars
    /\ DropLocals
    /\ UNCHANGED frame

StartInteractive ==
    /\ pc = "Decided"
    /\ fit = "nofit"
    /\ pc' = "Interactive"
    /\ handed' = <<Session>>
    /\ UNCHANGED <<onTime, progress, delay_fullscreen, ret, chan, termSize, pendingResized,
                   rendered, renders>>
    /\ UNCHANGED regVars
    /\ UNCHANGED decidedVars
    /\ DropLocals
    /\ UNCHANGED frame

DisplayReturn ==
    /\ pc = "Interactive"
    /\ pc' = "Terminated"
    /\ \E r \in {"ok", "err"} : ret' = r
    /\ UNCHANGED <<onTime, progress, delay_fullscreen, chan, termSize, pendingResized>>
    /\ UNCHANGED regVars
    /\ UNCHANGED waitVars
    /\ UNCHANGED outVars
    /\ UNCHANGED frame

(* ------------------------------- Next --------------------------------- *)
Register ==
    \/ AddOutputStream
    \/ AddErrorStream
    \/ AddStreamErr
    \/ SetProgressStream
    \/ SetDelayFullscreen

Worker == WorkerAppend \/ WorkerFinish

Orchestrator ==
    \/ RunImmediate
    \/ RunDelayed
    \/ RunSizeErr
    \/ PollLoaded
    \/ PollResized
    \/ PollResizedErr
    \/ PollKey
    \/ PollProgress
    \/ PollInput
    \/ PollTimeout
    \/ PollErr
    \/ DeadlineElapsed
    \/ DirectFlush
    \/ DirectFlushErr
    \/ StartInteractive
    \/ DisplayReturn

Next == Register \/ Worker \/ ResizeTerminal \/ Orchestrator

Spec == Init /\ [][Next]_vars

(* ------------- files_fit and the flush loop, step by step -------------- *)
(* The reader (the orchestrating thread) runs files_fit, or the loop of    *)
(* run that builds the changes, one shared read at a time, while the       *)
(* sources' writers go on publishing lines.  size holds the arguments w    *)
(* and h of files_fit.                                                     *)
readFixed == <<files, kinds, error_files, progress, delay_fullscreen, ret, srcState,
               chan, termSize, pendingResized, pc, size, loaded, clock, event, fit,
               cause, rendered, renders, handed, onTime>>

ReaderInit ==
    /\ \E n \in 0..MaxReadFiles :
         /\ files = [j \in 1..n |-> j - 1]
         /\ kinds = [j \in 1..n |-> "out"]
         /\ published = [j \in 1..n |-> <<>>]
         /\ srcState = [j \in 1..n |-> "Loading"]
         /\ loaded = [j \in 1..n |-> FALSE]
         /\ frame = [NoFrame EXCEPT !.seen = [j \in 1..n |-> 0]]
    /\ size \in ReadSizes
    /\ termSize = size
    /\ error_files = {}
    /\ progress = FALSE
    /\ delay_fullscreen = TRUE
    /\ ret = "none"
    /\ chan = <<>>
    /\ pendingResized = 0
    /\ pc = "DecidingFit"
    /\ clock = 0
    /\ event = "none"
    /\ fit = "none"
    /\ cause = "none"
    /\ rendered = <<>>
    /\ renders = 0
    /\ handed = <<>>
    /\ onTime = TRUE

\* a writer publishes one more line of its source
ReaderAppend ==
    /\ \E j \in 1..Len(files) :
         /\ Len(published[j]) < MaxReadLines
         /\ \E len \in ReadLineLens :
              published' = [published EXCEPT ![j] = Append(@, len)]
    /\ frame' = [frame EXCEPT !.grew = @ \/ frame.at # "idle"]
    /\ UNCHANGED readFixed

\* mutant: no line-count shortcut
Shortcut_Never(wrapped, lines, h) == FALSE

\* the line-count shortcut taken before a file's heights are read
Shortcut(wrapped, lines, h) == wrapped + lines > h

\* mutant: the range written 0..=lines
LoopEnds_Inclusive(i, lines) == i > lines

\* `for i in 0..lines` is exhausted
LoopEnds(i, lines) == i >= lines

Call(fn) == [NoFrame EXCEPT !.fn = fn, !.at = "file", !.file = 1, !.seen = frame.seen]

FitCall ==
    /\ frame.at \in {"idle", "done"}
    /\ frame' = Call("files_fit")
    /\ UNCHANGED published
    /\ UNCHANGED readFixed

\* `for file in files.iter()`, `file.lines()` and the shortcut
FitNextFile ==
    /\ frame.fn = "files_fit"
    /\ frame.at = "file"
    /\ IF frame.file > Len(files)
       THEN frame' = [frame EXCEPT !.at = "done", !.ret = "true"]
       ELSE LET lines == Lines(published, files[frame.file]) IN
            IF Shortcut(frame.wrapped_lines, lines, size.rows)
            THEN frame' = [frame EXCEPT !.at = "done", !.ret = "false",
                                        !.lines = lines, !.seen[frame.file] = lines]
            ELSE frame' = [frame EXCEPT !.at = "line", !.i = 0,
                                        !.lines = lines, !.seen[frame.file] = lines]
    /\ UNCHANGED published
    /\ UNCHANGED readFixed

\* one round of `for i in 0..lines`: with_line, the sum and the overflow test
FitReadLine ==
    /\ frame.fn = "files_fit"
    /\ frame.at = "line"
    /\ IF LoopEnds(frame.i, frame.lines)
       THEN frame' = [frame EXCEPT !.at = "file", !.file = @ + 1]
       ELSE LET f == files[frame.file]
                got == WithLine(published, f, frame.i)
                wrapped == frame.wrapped_lines
                           + LineHeightOr0(published, f, frame.i, size.cols)
            IN frame' = [frame EXCEPT
                           !.wrapped_lines = wrapped,
                           !.reads = @ + 1,
                           !.nones = @ + (IF got = <<>> THEN 1 ELSE 0),
                           !.i = IF wrapped > size.rows THEN @ ELSE @ + 1,
                           !.at = IF wrapped > size.rows THEN "done" ELSE "line",
                           !.ret = IF wrapped > size.rows THEN "false" ELSE @]
    /\ UNCHANGED published
    /\ UNCHANGED readFixed

FlushCall ==
    /\ frame.at \in {"idle", "done"}
    /\ frame' = Call("flush")
    /\ UNCHANGED published
    /\ UNCHANGED readFixed

\* `for file in spec.files.iter()` and `file.lines()`
FlushNextFile ==
    /\ frame.fn = "flush"
    /\ frame.at = "file"
    /\ IF frame.file > Len(files)
       THEN frame' = [frame EXCEPT !.at = "done", !.ret = "fallthrough"]
       ELSE LET lines == Lines(published, files[frame.file]) IN
            frame' = [frame EXCEPT !.at = "line", !.i = 0,
                                   !.lines = lines, !.seen[frame.file] = lines]
    /\ UNCHANGED published
    /\ UNCHANGED readFixed

\* one round of `for i in 0..file.lines()`, or the render and return after it
FlushReadLine ==
    /\ frame.fn = "flush"
    /\ frame.at = "line"
    /\ IF LoopEnds(frame.i, frame.lines)
       THEN frame' = [frame EXCEPT !.at = "done", !.ret = "ok"]
       ELSE LET f == files[frame.file]
                got == WithLine(published, f, frame.i)
            IN frame' = [frame EXCEPT
                           !.changes = IF got = <<>> THEN @
                                       ELSE Append(@, <<f, frame.i, got[1]>>),
                           !.reads = @ + 1,
                           !.nones = @ + (IF got = <<>> THEN 1 ELSE 0),
                           !.i = @ + 1]
    /\ UNCHANGED published
    /\ UNCHANGED readFixed

ReaderNext ==
    \/ ReaderAppend
    \/ FitCall
    \/ FitNextFile
    \/ FitReadLine
    \/ FlushCall
    \/ FlushNextFile
    \/ FlushReadLine

ReaderSpec == ReaderInit /\ [][ReaderNext]_vars

(* ===================================================================== *)
(* Properties                                                            *)
(* ===================================================================== *)
\* The orchestrating thread is scheduled: run keeps executing.
FairSpec == Spec /\ WF_vars(Orchestrator)

RECURSIVE SumHeights(_, _, _)
SumHeights(lines, k, w) ==
    IF k = 0 THEN 0 ELSE Height(lines[k], w) + SumHeights(lines, k - 1, w)

\* H: the total wrapped-row height of everything published, at width w
RECURSIVE TotalHeight(_, _, _)
TotalHeight(pub, k, w) ==
    IF k = 0 THEN 0
    ELSE SumHeights(pub[k], Len(pub[k]), w) + TotalHeight(pub, k - 1, w)

FitsAt(pub, sz) == TotalHeight(pub, Len(pub), sz.cols) <= sz.rows

EverySourceLoaded == \A f \in 1..Len(files) : srcState[f] = "Loaded"

SomeSourceLoading == \E f \in 1..Len(files) : srcState[f] = "Loading"

EveryLoadedReceived == \A j \in 1..Len(loaded) : loaded[j]

RECURSIVE AllChanges(_, _, _)
AllChanges(pub, fs, k) ==
    IF k = 0 THEN <<>>
    ELSE AllChanges(pub, fs, k - 1) \o
         [i \in 1..Len(pub[fs[k] + 1]) |-> <<fs[k], i - 1, pub[fs[k] + 1][i]>>]

Flushed == pc = "Terminated" /\ fit = "fits" /\ renders = 1 /\ ret = "ok"

\* C1: when run takes the DirectFlush path, the single render holds every
\* line of every registered source, sources in registration order and lines
\* in index order.
C1_FlushRendersEverySource ==
    Flushed => rendered = AllChanges(published, files, Len(files))

\* C2 (as stated): if every source reaches Loaded before the deadline, the
\* content fits the terminal whatever its current size (H <= R), and no key
\* press is received, wait_for_screenful reports "fits".
C2_LoadedInTimeAndFitsMeansFits ==
    (/\ pc = "Decided"
     /\ EverySourceLoaded
     /\ onTime
     /\ event # "Key"
     /\ \A s \in ScreenSizes : FitsAt(published, s))
    => fit = "fits"

\* C2 (amended): for a non-empty source list, if wait_for_screenful has
\* received the Loaded event of every source, has received no key press, and
\* the content fits the dimensions it has recorded (H <= R), it reports "fits".
C2_AllReceivedAndFitsMeansFits ==
    (/\ pc = "Decided"
     /\ files # <<>>
     /\ EveryLoadedReceived
     /\ event # "Key"
     /\ FitsAt(published, size))
    => fit = "fits"

C2_Witness ==
    /\ pc = "Decided"
    /\ fit = "fits"
    /\ Len(files) = 2
    /\ EveryLoadedReceived
    /\ TotalHeight(published, Len(published), size.cols) = size.rows

\* C3: a key press received by the fit wait stops it at once with "does not
\* fit", whatever the load state and even when the content fits; run then
\* enters Interactive and never renders directly.
C3_KeyStopsWait ==
    event = "Key" =>
        /\ pc \in {"Decided", "Interactive", "Terminated"}
        /\ fit = "nofit"
        /\ cause = "key"
        /\ renders = 0
        /\ pc # "Decided" => handed # <<>>

C3_Witness ==
    /\ event = "Key"
    /\ pc = "Decided"
    /\ fit = "nofit"
    /\ EverySourceLoaded
    /\ Len(files) = 2
    /\ TotalLines(published, Len(published)) > 0
    /\ FitsAt(published, size)

\* C4 (as stated): when the wait ends on overflow while a source is still
\* loading, it reports "does not fit" strictly before the deadline.
C4_OverflowReportedBeforeDeadline ==
    (pc = "Decided" /\ cause = "overflow" /\ SomeSourceLoading)
    => clock < LoadDelay

\* C4 (amended): a polling iteration at whose end the published content is
\* higher than the recorded row count ends the wait with "does not fit",
\* whether or not sources are still loading; the iteration began before the
\* deadline, so the report comes less than one sub-timeout after it.
C4_OverflowEndsIteration ==
    [][(pc = "DecidingFit" /\ clock' > clock /\ ~FitsAt(published', size'))
       => (pc' = "Decided" /\ fit' = "nofit" /\ clock' < LoadDelay + SubTimeout)]_vars

C4_Witness ==
    /\ pc = "Decided"
    /\ cause = "overflow"
    /\ fit = "nofit"
    /\ SomeSourceLoading
    /\ ~FitsAt(published, size)

Indices(n) == [j \in 1..n |-> j - 1]

IsPrefix(a, b) == Len(a) <= Len(b) /\ \A i \in 1..Len(a) : a[i] = b[i]

\* C5: with delay-fullscreen set and a source that has not reached Loaded,
\* the wait never reports "fits" and nothing is rendered directly; when the
\* deadline ends the wait it reports "does not fit" and run goes on to
\* Interactive, handing over the registered list in order, the published
\* lines being only ever appended to.
C5_DeadlineLeadsToInteractive ==
    /\ [](fit = "fits" => EverySourceLoaded)
    /\ [](SomeSourceLoading => renders = 0)
    /\ [](cause = "deadline" =>
            /\ fit = "nofit"
            /\ renders = 0
            /\ pc = "Decided" \/ handed # <<>>)
    /\ [](handed # <<>> =>
            /\ handed[1].files = files
            /\ files = Indices(Len(kinds)))
    /\ [][/\ pc # "Configuring" => files' = files
          /\ \A f \in 1..Len(published) :
                 Len(published') >= f /\ IsPrefix(published[f], published'[f])]_vars
    /\ (cause = "deadline") ~> (handed # <<>>)

C5_Witness ==
    /\ cause = "deadline"
    /\ pc = "Interactive"
    /\ Len(files) = 2
    /\ srcState = <<"Loaded", "Loading">>
    /\ published[2] # <<>>
    /\ handed[1].files = <<0, 1>>

\* C6: in a session whose first registration is an output stream (so that
\* every add_error_stream call has a most recently added output stream), every
\* Error-File Map entry is keyed by the index of the latest source registered
\* through add_output_stream before its error source; no source registered
\* through add_error_stream is a key.
C6_ErrorKeyIsLatestOutput ==
    (kinds # <<>> /\ kinds[1] = "out") =>
        \A p \in error_files :
            /\ kinds[p[1] + 1] = "out"
            /\ \A j \in (p[1] + 2)..p[2] : kinds[j] # "out"

\* C7: add_error_stream right after add_output_stream adds exactly the entry
\* <<output index, error source>>; the map holds at most one entry per key,
\* no entry is ever overwritten or removed, and no step other than an
\* add_error_stream call changes the map.
C7_MapChangedOnlyByAddErrorStream ==
    /\ [](\A p, q \in error_files : p[1] = q[1] => p = q)
    /\ [](kinds = <<"out", "err">> => error_files = {<<0, 1>>})
    /\ [][/\ error_files \subseteq error_files'
          /\ error_files' # error_files =>
                /\ pc = "Configuring"
                /\ kinds' = Append(kinds, "err")
          /\ (kinds # <<>> /\ kinds[Len(kinds)] = "out" /\ kinds' = Append(kinds, "err")) =>
                /\ error_files' \ error_files = {<<Len(files) - 1, Len(files)>>}
                /\ \A p \in error_files : p[1] # Len(files) - 1]_vars

C7_Witness ==
    /\ kinds = <<"out", "err">>
    /\ error_files = {<<0, 1>>}
    /\ pc = "Decided"
    /\ cause = "deadline"

\* C8: a successful run ends in exactly one of DirectFlush and Interactive.
\* DirectFlush happens only with delay-fullscreen set and a "fits" result and
\* then display::start is never called; otherwise run calls display::start,
\* and with delay-fullscreen unset it does so without having polled the event
\* stream or rendered anything.
C8_ExactlyOneMode ==
    /\ renders > 0 =>
          (delay_fullscreen /\ fit = "fits" /\ handed = <<>> /\ pc = "Terminated")
    /\ handed # <<>> =>
          (renders = 0 /\ fit = IF delay_fullscreen THEN "nofit" ELSE "none")
    /\ (handed # <<>> /\ ~delay_fullscreen) => (event = "none" /\ rendered = <<>>)
    /\ (pc = "Terminated" /\ ret = "ok") => (renders = 1 \/ handed # <<>>)
    /\ (pc = "Terminated" /\ ret = "ok" /\ fit = "fits") => (renders = 1 /\ handed = <<>>)
    /\ pc = "Interactive" => handed # <<>>

C8_Witness ==
    /\ Flushed
    /\ handed = <<>>
    /\ Len(rendered) = 2

\* C9: the fit wait always terminates, and its clock never reaches the
\* deadline plus one sub-timeout, whatever events keep arriving.
C9_WaitTerminates ==
    /\ [](clock < LoadDelay + SubTimeout)
    /\ (pc = "DecidingFit") ~> (pc # "DecidingFit")

C9_Witness ==
    /\ pc = "Decided"
    /\ cause = "deadline"
    /\ clock > LoadDelay
    /\ chan # <<>>
    /\ pendingResized > 0

\* C10: an iteration that receives a resize event records the terminal's
\* dimensions and ends the wait with "does not fit" exactly when the published
\* content does not fit them; no other iteration changes the recorded
\* dimensions, and every fit evaluation uses the recorded ones.
C10_ResizeRefetchesAndReevaluates ==
    [][(pc = "DecidingFit" /\ pc' \in {"DecidingFit", "Decided"}) =>
          /\ pendingResized' < pendingResized =>
                /\ size' = termSize
                /\ (pc' = "Decided") <=> ~FitsAt(published, termSize)
                /\ pc' = "Decided" => fit' = "nofit"
          /\ pendingResized' >= pendingResized => size' = size
          /\ cause' = "loaded" => ((fit' = "fits") <=> FitsAt(published, size))
          /\ cause' = "overflow" => ~FitsAt(published, size')]_vars

C10_Witness ==
    /\ pc = "Decided"
    /\ event = "Resized"
    /\ cause = "overflow"
    /\ fit = "nofit"
    /\ size = termSize
    /\ size.rows = 1
    /\ SomeSourceLoading
    /\ clock < LoadDelay

\* C11: one evaluation of files_fit with row count R reads the height of at
\* most R lines, whatever the number and length of the sources; as soon as
\* the running total exceeds R it stops with "does not fit", and it stops
\* with "does not fit" before the total exceeds R only at a source whose line
\* count takes the total over R.
C11_ReadsAtMostRows ==
    frame.fn = "files_fit" =>
        /\ frame.reads <= size.rows
        /\ frame.wrapped_lines > size.rows =>
              (frame.at = "done" /\ frame.ret = "false")
        /\ (frame.at = "done" /\ frame.ret = "false"
            /\ frame.wrapped_lines <= size.rows) =>
              frame.wrapped_lines + frame.lines > size.rows

C11_Witness ==
    /\ frame.fn = "files_fit"
    /\ frame.at = "done"
    /\ frame.ret = "false"
    /\ size.rows = 1
    /\ frame.lines = 2
    /\ frame.reads = 0
    /\ \A j \in 1..Len(published) : Len(published[j]) = MaxReadLines

\* C12: a terminal call that fails during DecidingFit or DirectFlush
\* (get_screen_size, the event poll, render_full, render) makes run return the
\* failure; display::start is then never called, a failure during the wait
\* leaves nothing rendered, a failure during DirectFlush leaves at most the one
\* render that failed, and nothing is rendered or handed over afterwards.
C12_TerminalErrorEndsRun ==
    /\ [](cause = "error" =>
            /\ pc = "Terminated"
            /\ ret = "err"
            /\ fit = "err"
            /\ handed = <<>>
            /\ renders = 0)
    /\ []((pc = "Terminated" /\ fit = "fits" /\ ret = "err") =>
            /\ handed = <<>>
            /\ renders <= 1)
    /\ [][/\ event' = "Err" => (cause' = "error" /\ ret' = "err")
          /\ pc = "Terminated" =>
                UNCHANGED <<pc, ret, rendered, renders, handed>>]_vars

C12_Witness ==
    /\ cause = "error"
    /\ event = "Resized"
    /\ pc = "Terminated"
    /\ ret = "err"
    /\ Len(files) = 2
    /\ TotalLines(published, Len(published)) > 0

\* C13: the wait marks a source loaded only once the source is Loaded, and a
\* Loaded source publishes no further line; so when the wait reports "fits"
\* every source has its final content, and the render of DirectFlush holds
\* every line of the source it renders, in order, under every interleaving of
\* the workers with the orchestrating thread.
C13_FlushReadsFinalContent ==
    /\ [](\A j \in 1..Len(loaded) : loaded[j] => srcState[j] = "Loaded")
    /\ [](fit = "fits" => EverySourceLoaded)
    /\ [][\A f \in 1..Len(files) :
             srcState[f] = "Loaded" =>
                (srcState'[f] = "Loaded" /\ published'[f] = published[f])]_vars
    /\ [][renders' # renders =>
             /\ srcState[1] = "Loaded"
             /\ Len(rendered') = Len(published'[1])
             /\ \A i \in 1..Len(published'[1]) :
                    rendered'[i] = <<files[1], i - 1, published'[1][i]>>]_vars

C13_Witness ==
    /\ Flushed
    /\ Len(files) = 2
    /\ Len(published[1]) = 2
    /\ Len(rendered) = Len(published[1])
    /\ chan = <<>>

\* C14: under every interleaving of the writers with the reader, the line
\* count the reader observes for a source never exceeds the lines published
\* and never decreases, with_line(i) yields nothing exactly for i at or beyond
\* the line count, and in files_fit and in the flush loop, which read the
\* count once and iterate i below it, with_line never yields nothing: no
\* height falls back to 0 and the flush holds every line below the count read.
C14_ReaderNeverOutrunsWriter ==
    /\ [](\A j \in 1..Len(files) : frame.seen[j] <= Len(published[j]))
    /\ [](frame.at = "line" => frame.lines <= Lines(published, files[frame.file]))
    /\ [](\A j \in 1..Len(files) : \A i \in 0..(MaxReadLines + 1) :
             WithLine(published, files[j], i) =
                IF i < Lines(published, files[j]) THEN <<published[j][i + 1]>> ELSE <<>>)
    /\ [](frame.nones = 0)
    /\ []((frame.fn = "flush" /\ frame.ret = "ok") =>
             /\ Len(frame.changes) = frame.lines
             /\ \A i \in 1..frame.lines :
                    frame.changes[i] = <<files[1], i - 1, published[1][i]>>)
    /\ [][\A j \in 1..Len(files) :
             /\ frame'.seen[j] >= frame.seen[j]
             /\ IsPrefix(published[j], published'[j])]_vars

C14_Witness ==
    /\ frame.fn = "flush"
    /\ frame.at = "done"
    /\ frame.ret = "ok"
    /\ frame.grew
    /\ frame.reads = 1
    /\ Len(frame.changes) = 1
    /\ Len(published[1]) = 2

\* C15: for sources that do not grow during the call (line heights being at
\* least 1), files_fit(files, w, h) is true exactly when the heights of all
\* lines of all sources sum to at most h, whether it is computed in one piece
\* or step by step with the line-count shortcut, for empty sources, an empty
\* source list and h = 0 as for any other input.
C15_FitsIffTotalHeightAtMostRows ==
    /\ files_fit(published, files, size.cols, size.rows) <=> FitsAt(published, size)
    /\ (frame.fn = "files_fit" /\ frame.at = "done" /\ ~frame.grew) =>
          /\ frame.ret \in {"true", "false"}
          /\ (frame.ret = "true") <=> FitsAt(published, size)
    /\ \A j \in 1..Len(published) : \A i \in 1..Len(published[j]) :
          Height(published[j][i], size.cols) >= 1

C15_Witness ==
    /\ frame.fn = "files_fit"
    /\ frame.at = "done"
    /\ ~frame.grew
    /\ frame.ret = "true"
    /\ Len(files) = 2
    /\ published[1] = <<>>
    /\ Len(published[2]) = 2
    /\ frame.wrapped_lines = size.rows
    /\ frame.wrapped_lines > frame.reads

\* C16: wait_for_screenful reports "fits" only in an iteration that receives
\* a Loaded event after which a Loaded event has been received for every
\* source, and only if the content fits the recorded dimensions; in such an
\* iteration it reports "does not fit" at once if the content does not fit;
\* it never reports "fits" on a timeout, resize, key, progress or other input
\* event, nor while a Loaded event is outstanding.
C16_FitsOnlyOnLastLoaded ==
    /\ [](fit = "fits" =>
            /\ cause = "loaded"
            /\ event = "Other"
            /\ files # <<>>
            /\ pc = "Decided" => (EveryLoadedReceived /\ FitsAt(published, size)))
    /\ [][(pc = "DecidingFit" /\ fit' = "fits") =>
            /\ chan # <<>>
            /\ chan' = Tail(chan)
            /\ ~loaded[Head(chan) + 1]
            /\ loaded' = [loaded EXCEPT ![Head(chan) + 1] = TRUE]
            /\ \A j \in 1..Len(loaded') : loaded'[j]
            /\ size' = size
            /\ pendingResized' = pendingResized
            /\ FitsAt(published, size)
            /\ pc' = "Decided"]_vars
    /\ [][(pc = "DecidingFit" /\ Len(chan') < Len(chan)
           /\ (\A j \in 1..Len(loaded') : loaded'[j])) =>
            /\ pc' = "Decided"
            /\ cause' = "loaded"
            /\ (fit' = "fits") <=> FitsAt(published, size)
            /\ (fit' = "nofit") <=> ~FitsAt(published, size)]_vars

C16_Witness ==
    /\ pc = "Decided"
    /\ cause = "loaded"
    /\ fit = "nofit"
    /\ Len(files) = 2
    /\ EveryLoadedReceived
    /\ ~FitsAt(published, size)
    /\ clock < LoadDelay

\* C17: after any sequence of add_output_stream and add_error_stream calls,
\* failing ones included, every source's index is its position in the list;
\* the list only grows at its end and a failing call leaves it alone, so no
\* index is reassigned; every Loaded(i) event sent has i below the number of
\* registered sources, and the wait's loaded vector has one flag per source,
\* so marking loaded[i] is always in range.
C17_IndexIsPosition ==
    /\ [](\A j \in 1..Len(files) : files[j] = j - 1)
    /\ [](\A e \in 1..Len(chan) : chan[e] \in 0..(Len(files) - 1))
    /\ [](pc \in {"DecidingFit", "Decided"} => Len(loaded) = Len(files))
    /\ [][/\ IsPrefix(files, files')
          /\ Len(files') <= Len(files) + 1
          /\ (pc = "Configuring" /\ ret' = "err" /\ pc' = "Configuring") =>
                files' = files
          /\ (pc = "DecidingFit" /\ Len(chan') < Len(chan)) =>
                (Head(chan) + 1) \in DOMAIN loaded]_vars

C17_Witness ==
    /\ pc = "DecidingFit"
    /\ kinds = <<"err", "out">>
    /\ chan = <<1>>
    /\ loaded = <<TRUE, FALSE>>

C19_OtherEventsKeepWaiting ==
    /\ [][(pc = "DecidingFit" /\ clock' > clock /\ event' = "Other"
           /\ chan' = chan) =>
            /\ size' = size
            /\ loaded' = loaded
            /\ (pc' = "DecidingFit") <=> FitsAt(published, size)
            /\ pc' # "DecidingFit" =>
                  (pc' = "Decided" /\ fit' = "nofit" /\ cause' = "overflow")]_vars
    /\ [][(pc = "DecidingFit" /\ pc' # "DecidingFit" /\ clock' = clock
           /\ event' = event) =>
            (clock >= LoadDelay /\ cause' = "deadline")]_vars
    /\ [](pc = "DecidingFit" =>
            \A j \in 1..Len(loaded) :
                loaded[j] => ([loaded EXCEPT ![j] = TRUE] = loaded
                              /\ ~AllLoaded([loaded EXCEPT ![j] = TRUE])))

C19_Witness ==
    /\ pc = "DecidingFit"
    /\ event = "Other"
    /\ progress
    /\ clock = 3 * SubTimeout
    /\ chan = <<>>
    /\ loaded = <<TRUE, FALSE>>
    /\ published[2] # <<>>
    /\ size = termSize

====
